---- MODULE Spec2Model ----
(***************************************************************************)
(* Model of fuels-core's ABIParser (packages/fuels-core/src/json_abi.rs):  *)
(* the JSON-ABI call codec that turns literal strings into encoded call    *)
(* payloads and decodes return bytes.                                      *)
(*                                                                         *)
(* Literals and strings are sequences of Unicode code points, byte strings *)
(* are sequences of 0..255, hex strings are sequences of nibbles 0..15.    *)
(* Unsigned integers are kept as big-endian byte sequences of their width, *)
(* so that the u32/u64 range is represented exactly.                       *)
(***************************************************************************)
EXTENDS Integers, Sequences, FiniteSets, TLC

VARIABLES fn_selector, call

vars == <<fn_selector, call>>

(***************************************************************************)
(* Bounds of the explored inputs.                                          *)
(***************************************************************************)
\* integer sample values 0..MaxSmall are drawn for every integer type
MaxSmall == 1
\* extra elements appended to / removed from a well-formed list literal
MaxExtra == 1

(***************************************************************************)
(* Characters.                                                             *)
(***************************************************************************)
CharCode ==
  [c \in {"0","1","2","3","4","5","6","7","8","9"} |->
      CASE c = "0" -> 48 [] c = "1" -> 49 [] c = "2" -> 50 [] c = "3" -> 51
        [] c = "4" -> 52 [] c = "5" -> 53 [] c = "6" -> 54 [] c = "7" -> 55
        [] c = "8" -> 56 [] c = "9" -> 57]
  @@ (" " :> 32) @@ ("(" :> 40) @@ (")" :> 41) @@ ("," :> 44)
  @@ ("[" :> 91) @@ ("]" :> 93) @@ ("x" :> 120)
  @@ ("a" :> 97) @@ ("b" :> 98) @@ ("c" :> 99) @@ ("d" :> 100)
  @@ ("e" :> 101) @@ ("f" :> 102) @@ ("l" :> 108) @@ ("r" :> 114)
  @@ ("s" :> 115) @@ ("t" :> 116) @@ ("u" :> 117)
  @@ ("J" :> 74) @@ ("o" :> 111) @@ ("h" :> 104) @@ ("n" :> 110)
  \* U+0141, LATIN CAPITAL LETTER L WITH STROKE: the non-ASCII test character
  @@ ("L/" :> 321)

\* the literal spelled by a sequence of one-character strings
Lit(s) == [i \in DOMAIN s |-> CharCode[s[i]]]

IsAsciiChar(c) == c < 128
IsAscii(lit) == \A i \in DOMAIN lit : IsAsciiChar(lit[i])
IsDigit(c) == c >= 48 /\ c <= 57

Min(a, b) == IF a <= b THEN a ELSE b

RECURSIVE Flatten(_)
Flatten(ss) == IF ss = <<>> THEN <<>> ELSE Head(ss) \o Flatten(Tail(ss))

Zeros(n) == [i \in 1..n |-> 0]

(***************************************************************************)
(* Unsigned integers of a byte width, as big-endian byte sequences.        *)
(***************************************************************************)
\* bytes * 10 + d, as [v |-> bytes of the same width, carry |-> overflow]
RECURSIVE MulAdd10(_, _)
MulAdd10(bytes, d) ==
  IF bytes = <<>> THEN [v |-> <<>>, carry |-> d]
  ELSE LET n == Len(bytes)
           x == bytes[n] * 10 + d
           hi == MulAdd10(SubSeq(bytes, 1, n - 1), x \div 256)
       IN [v |-> Append(hi.v, x % 256), carry |-> hi.carry]

\* the decimal digits lit[i..] folded into acc; "overflow" when the width is exceeded
RECURSIVE ParseDigits(_, _, _)
ParseDigits(lit, i, acc) ==
  IF i > Len(lit) THEN [ok |-> TRUE, v |-> acc]
  ELSE LET m == MulAdd10(acc, lit[i] - 48)
       IN IF m.carry > 0 THEN [ok |-> FALSE, v |-> acc]
          ELSE ParseDigits(lit, i + 1, m.v)

\* bytes divided by 10, as [q |-> quotient bytes, r |-> remainder]
RECURSIVE DivMod10(_, _)
DivMod10(bytes, rem) ==
  IF bytes = <<>> THEN [q |-> <<>>, r |-> rem]
  ELSE LET x == rem * 256 + Head(bytes)
           lo == DivMod10(Tail(bytes), x % 10)
       IN [q |-> <<x \div 10>> \o lo.q, r |-> lo.r]

IsZero(bytes) == \A i \in DOMAIN bytes : bytes[i] = 0

\* the decimal literal of an unsigned integer
RECURSIVE Decimal(_)
Decimal(bytes) ==
  LET d == DivMod10(bytes, 0)
  IN IF IsZero(d.q) THEN <<48 + d.r>>
     ELSE Append(Decimal(d.q), 48 + d.r)

\* a small natural as an unsigned integer of w bytes
Num(n, w) == Zeros(w - 1) \o <<n>>

(***************************************************************************)
(* Results: what a call hands back to its caller.  "panic" is an abort of  *)
(* the call (Option::expect / Option::unwrap on None), as opposed to an    *)
(* Err returned to the caller.                                             *)
(***************************************************************************)
Ok(v) == [kind |-> "ok", val |-> v]
Err(e) == [kind |-> "err", err |-> e]
Panic(m) == [kind |-> "panic", msg |-> m]

IsOk(r) == r.kind = "ok"

\* collect::<Result<Vec<_>, _>>() over rs[i..]: Ok of the values gathered in
\* acc, or the first result that is not ok; nothing after it is evaluated
RECURSIVE CollectFrom(_, _, _)
CollectFrom(rs, i, acc) ==
  IF i > Len(rs) THEN Ok(acc)
  ELSE LET r == rs[i]
       IN IF IsOk(r) THEN CollectFrom(rs, i + 1, Append(acc, r.val)) ELSE r

Collect(rs) == CollectFrom(rs, 1, <<>>)

(***************************************************************************)
(* ParamType: the concrete types.                                          *)
(***************************************************************************)
Prim(k) == [k |-> k]
ArrayT(inner, n) == [k |-> "Array", inner |-> inner, n |-> n]
StringT(n) == [k |-> "String", n |-> n]
TupleT(ts) == [k |-> "Tuple", ts |-> ts]
StructT(names, ts) == [k |-> "Struct", names |-> names, ts |-> ts]
EnumT(names, ts) == [k |-> "Enum", names |-> names, ts |-> ts]

IntKinds == {"U8", "U16", "U32", "U64", "Byte"}

\* bytes of the logical width of an integer type
WidthOf(k) ==
  CASE k = "U8" -> 1 [] k = "Byte" -> 1 [] k = "U16" -> 2
    [] k = "U32" -> 4 [] k = "U64" -> 8

(***************************************************************************)
(* The JSON ABI (ProgramABI): type declarations by id and function         *)
(* entries.  The "type" field of a declaration is the JSON string; its     *)
(* pattern (str[N], [_; N], struct X, ...) is read through TypeField.      *)
(***************************************************************************)
TypeField ==
     ("()" :> [k |-> "Unit"]) @@ ("bool" :> [k |-> "Bool"])
  @@ ("u8" :> [k |-> "U8"]) @@ ("u16" :> [k |-> "U16"])
  @@ ("u32" :> [k |-> "U32"]) @@ ("u64" :> [k |-> "U64"])
  @@ ("byte" :> [k |-> "Byte"]) @@ ("b256" :> [k |-> "B256"])
  @@ ("str[2]" :> [k |-> "String", n |-> 2])
  @@ ("str[4]" :> [k |-> "String", n |-> 4])
  @@ ("str[8]" :> [k |-> "String", n |-> 8])
  @@ ("[_; 2]" :> [k |-> "Array", n |-> 2])
  @@ ("[_; 3]" :> [k |-> "Array", n |-> 3])
  @@ ("(_, _)" :> [k |-> "Tuple"]) @@ ("(_, _, _)" :> [k |-> "Tuple"])
  @@ ("struct MyStruct" :> [k |-> "Struct"])
  @@ ("struct Person" :> [k |-> "Struct"])
  @@ ("struct Labelled" :> [k |-> "Struct"])
  @@ ("struct Other" :> [k |-> "Struct"])
  @@ ("struct Node" :> [k |-> "Struct"])
  @@ ("enum State" :> [k |-> "Enum"])
  @@ ("enum Shape" :> [k |-> "Enum"])

Decl(id, type, components) ==
  [typeId |-> id, type |-> type, components |-> components]
Prop(name, type) == [name |-> name, type |-> type]
Fn(name, inputs, output) == [name |-> name, inputs |-> inputs, output |-> output]

AbiTypes ==
  << Decl(0, "()", <<>>),
     Decl(1, "bool", <<>>),
     Decl(2, "u8", <<>>),
     Decl(3, "u16", <<>>),
     Decl(4, "u32", <<>>),
     Decl(5, "u64", <<>>),
     Decl(6, "byte", <<>>),
     Decl(7, "b256", <<>>),
     Decl(8, "str[4]", <<>>),
     Decl(9, "[_; 3]", <<Prop("__array_element", 3)>>),
     Decl(10, "[_; 2]", <<Prop("__array_element", 2)>>),
     Decl(11, "struct MyStruct", <<Prop("foo", 2), Prop("bar", 1)>>),
     Decl(12, "struct Person", <<Prop("name", 8)>>),
     Decl(13, "enum State", <<Prop("A", 0), Prop("B", 0), Prop("C", 0)>>),
     Decl(14, "(_, _)", <<Prop("__tuple_element", 5), Prop("__tuple_element", 1)>>),
     Decl(15, "(_, _, _)", <<Prop("__tuple_element", 14), Prop("__tuple_element", 12),
                             Prop("__tuple_element", 13)>>),
     Decl(16, "struct Labelled", <<Prop("foo", 10), Prop("bar", 8)>>),
     Decl(17, "enum Shape", <<Prop("Side", 2), Prop("Flag", 1), Prop("Empty", 0)>>),
     Decl(18, "[_; 2]", <<Prop("__array_element", 10)>>),
     Decl(19, "str[2]", <<>>),
     Decl(20, "str[8]", <<>>) >>

\* the schema of the module's tests, gathered into one ABI
Abi ==
  [types |-> AbiTypes,
   functions |->
     << Fn("takes_u32_returns_bool", <<Prop("only_argument", 4)>>, Prop("", 1)),
        Fn("my_func", <<Prop("foo", 7), Prop("bar", 6)>>, Prop("", 7)),
        Fn("takes_array", <<Prop("arg", 9)>>, Prop("", 10)),
        Fn("takes_string", <<Prop("foo", 8)>>, Prop("", 19)),
        Fn("takes_struct_and_primitive",
           <<Prop("my_struct", 11), Prop("foo", 4)>>, Prop("", 0)),
        Fn("takes_nested_tuple", <<Prop("input", 15)>>, Prop("", 0)),
        Fn("takes_struct", <<Prop("value", 16)>>, Prop("", 17)),
        Fn("takes_shape", <<Prop("shape", 17)>>, Prop("", 12)),
        Fn("takes_matrix", <<Prop("m", 18)>>, Prop("", 5)),
        Fn("takes_flags", <<Prop("flag", 1), Prop("small", 2), Prop("nothing", 0)>>,
           Prop("", 0)),
        Fn("takes_wide", <<Prop("half", 3), Prop("wide", 5)>>, Prop("", 0)),
        Fn("takes_long_string", <<Prop("foo", 20)>>, Prop("", 0)) >>]

\* a schema whose functions reference type ids it does not declare
AbiDangling ==
  [types |-> <<Decl(0, "()", <<>>), Decl(1, "u32", <<>>)>>,
   functions |->
     << Fn("takes_missing", <<Prop("arg", 1), Prop("gone", 7)>>, Prop("", 0)),
        Fn("returns_missing", <<Prop("arg", 1)>>, Prop("", 9)) >>]

\* takes_struct of the tests' schema with other type ids, other names for the
\* parameter, the struct and its fields, and another output type
AbiRenamed ==
  [types |-> << Decl(0, "bool", <<>>), Decl(1, "u8", <<>>), Decl(2, "str[4]", <<>>),
                Decl(3, "[_; 2]", <<Prop("__array_element", 1)>>),
                Decl(4, "struct Other", <<Prop("x", 3), Prop("y", 2)>>) >>,
   functions |-> << Fn("takes_struct", <<Prop("renamed", 4)>>, Prop("", 0)) >>]

\* a schema with type declarations that refer to themselves: a struct with a
\* field of its own type, and an array of tuples of that array
AbiCyclic ==
  [types |-> << Decl(0, "()", <<>>), Decl(1, "u8", <<>>),
                Decl(2, "struct Node", <<Prop("value", 1), Prop("next", 2)>>),
                Decl(3, "[_; 2]", <<Prop("__array_element", 4)>>),
                Decl(4, "(_, _)", <<Prop("__tuple_element", 1), Prop("__tuple_element", 3)>>) >>,
   functions |->
     << Fn("takes_node", <<Prop("node", 2)>>, Prop("", 0)),
        Fn("returns_loop", <<Prop("arg", 1)>>, Prop("", 3)) >>]

Schemas == {Abi, AbiDangling, AbiRenamed, AbiCyclic}

Range(s) == {s[i] : i \in DOMAIN s}

\* Abigen::get_types: the declarations keyed by type id
get_types(abi) ==
  [id \in {d.typeId : d \in Range(abi.types)} |->
     CHOOSE d \in Range(abi.types) : d.typeId = id]

\* functions.iter().find(|e| e.name == fn_name): the first entry of that name
FindFunction(abi, fn_name) ==
  LET hits == {i \in DOMAIN abi.functions : abi.functions[i].name = fn_name}
  IN IF hits = {} THEN <<>>
     ELSE <<abi.functions[CHOOSE i \in hits : \A j \in hits : i <= j]>>

(***************************************************************************)
(* Type Resolver: ParamType::from_type_declaration.                        *)
(***************************************************************************)
\* The descent is recursive and keeps no record of the declarations it is
\* in.  depth counts the declarations on the path of the descent: once it
\* exceeds the number of declarations of the schema, a declaration is being
\* resolved inside itself and the descent never ends; the call then does not
\* return, which is the outcome StackOverflow.
StackOverflow == Panic("stack overflow")

RECURSIVE Resolve(_, _, _)
\* the ParamType of the declaration with this id, UnknownType if it is absent
ResolveAt(id, types, depth) ==
  IF id \in DOMAIN types THEN Resolve(types[id], types, depth)
  ELSE Err([kind |-> "UnknownType", id |-> id])

Resolve(decl, types, depth) ==
  IF depth > Cardinality(DOMAIN types) THEN StackOverflow
  ELSE
  LET tag == TypeField[decl.type]
      comps == decl.components
      rs == Collect([i \in DOMAIN comps |-> ResolveAt(comps[i].type, types, depth + 1)])
      names == [i \in DOMAIN comps |-> comps[i].name]
  IN CASE tag.k = "String" -> Ok(StringT(tag.n))
       [] tag.k = "Array" ->
            IF IsOk(rs) THEN Ok(ArrayT(rs.val[1], tag.n)) ELSE rs
       [] tag.k = "Tuple" -> IF IsOk(rs) THEN Ok(TupleT(rs.val)) ELSE rs
       [] tag.k = "Struct" -> IF IsOk(rs) THEN Ok(StructT(names, rs.val)) ELSE rs
       [] tag.k = "Enum" -> IF IsOk(rs) THEN Ok(EnumT(names, rs.val)) ELSE rs
       [] OTHER -> Ok(Prim(tag.k))

from_type_declaration(decl, types) == Resolve(decl, types, 1)

ResolveId(id, types) == ResolveAt(id, types, 1)

(***************************************************************************)
(* Selector Builder: resolve_fn_selector and first_four_bytes_of_sha256.   *)
(***************************************************************************)
RECURSIVE JoinTags(_)
JoinTags(tags) ==
  IF tags = <<>> THEN ""
  ELSE IF Len(tags) = 1 THEN tags[1]
  ELSE tags[1] \o "," \o JoinTags(Tail(tags))

\* the canonical tag of a type; the array tag is a[<inner>;N], as the
\* selectors asserted by array_encode_and_decode and nested_struct_encode_and_decode
\* require
RECURSIVE TypeTag(_)
TypeTag(t) ==
  CASE t.k = "Unit" -> "()"
    [] t.k = "Bool" -> "bool"
    [] t.k = "U8" -> "u8"
    [] t.k = "U16" -> "u16"
    [] t.k = "U32" -> "u32"
    [] t.k = "U64" -> "u64"
    [] t.k = "Byte" -> "byte"
    [] t.k = "B256" -> "b256"
    [] t.k = "String" -> "str[" \o ToString(t.n) \o "]"
    [] t.k = "Array" -> "a[" \o TypeTag(t.inner) \o ";" \o ToString(t.n) \o "]"
    [] t.k = "Tuple" -> "(" \o JoinTags([i \in DOMAIN t.ts |-> TypeTag(t.ts[i])]) \o ")"
    [] t.k = "Struct" -> "s(" \o JoinTags([i \in DOMAIN t.ts |-> TypeTag(t.ts[i])]) \o ")"
    [] t.k = "Enum" -> "e(" \o JoinTags([i \in DOMAIN t.ts |-> TypeTag(t.ts[i])]) \o ")"

\* the input types of a function entry, resolved
InputTypes(entry, types) ==
  Collect([i \in DOMAIN entry.inputs |-> ResolveId(entry.inputs[i].type, types)])

\* name(tag1,tag2,...) over the resolved input types
resolve_fn_selector(entry, types) ==
  LET ts == InputTypes(entry, types).val
  IN entry.name \o "(" \o JoinTags([i \in DOMAIN ts |-> TypeTag(ts[i])]) \o ")"

\* the first 4 bytes of the SHA-256 digest of the signatures of Schemas, and
\* of the same signatures with arrays written [<inner>; N]
Sha256Prefix ==
     ("takes_u32_returns_bool(u32)" :> <<99, 85, 230, 238>>)
  @@ ("my_func(b256,byte)" :> <<230, 64, 25, 171>>)
  @@ ("takes_array(a[u16;3])" :> <<16, 28, 190, 181>>)
  @@ ("takes_string(str[4])" :> <<199, 79, 168, 222>>)
  @@ ("takes_struct_and_primitive(s(u8,bool),u32)" :> <<92, 68, 88, 56>>)
  @@ ("takes_nested_tuple(((u64,bool),s(str[4]),e((),(),())))" :> <<235, 184, 208, 17>>)
  @@ ("takes_struct(s(a[u8;2],str[4]))" :> <<141, 74, 185, 176>>)
  @@ ("takes_shape(e(u8,bool,()))" :> <<57, 151, 55, 211>>)
  @@ ("takes_flags(bool,u8,())" :> <<129, 106, 8, 98>>)
  @@ ("takes_wide(u16,u64)" :> <<214, 218, 62, 106>>)
  @@ ("takes_long_string(str[8])" :> <<35, 226, 208, 72>>)
  @@ ("takes_matrix(a[a[u8;2];2])" :> <<121, 238, 25, 73>>)
  @@ ("returns_missing(u32)" :> <<166, 251, 42, 36>>)
  @@ ("returns_loop(u8)" :> <<36, 159, 99, 193>>)
  @@ ("takes_array([u16; 3])" :> <<5, 135, 52, 185>>)
  @@ ("takes_struct(s([u8; 2],str[4]))" :> <<127, 55, 58, 190>>)
  @@ ("takes_matrix([[u8; 2]; 2])" :> <<60, 120, 74, 8>>)

\* an 8-byte word: 4 zero bytes, then the first 4 bytes of the hash
first_four_bytes_of_sha256_hash(sig) == <<0, 0, 0, 0>> \o Sha256Prefix[sig]

(***************************************************************************)
(* Value Tokenizer: Tokenizer::tokenize.                                   *)
(***************************************************************************)
Space == CharCode[" "]
Comma == CharCode[","]
Opening == {CharCode["["], CharCode["("]}
Closing == {CharCode["]"], CharCode[")"]}

RECURSIVE TrimLeft(_)
TrimLeft(lit) ==
  IF lit # <<>> /\ Head(lit) = Space THEN TrimLeft(Tail(lit)) ELSE lit

RECURSIVE TrimRight(_)
TrimRight(lit) ==
  IF lit # <<>> /\ lit[Len(lit)] = Space
  THEN TrimRight(SubSeq(lit, 1, Len(lit) - 1)) ELSE lit

Trim(lit) == TrimRight(TrimLeft(lit))

\* lit is <open> ... <close>
Enclosed(lit, open, close) ==
  Len(lit) >= 2 /\ lit[1] = CharCode[open] /\ lit[Len(lit)] = CharCode[close]

Inside(lit) == SubSeq(lit, 2, Len(lit) - 1)

\* the elements of body[i..], split at the commas of nesting depth 0; start
\* is where the current element began
RECURSIVE SplitFrom(_, _, _, _)
SplitFrom(body, i, depth, start) ==
  IF i > Len(body) THEN <<Trim(SubSeq(body, start, Len(body)))>>
  ELSE IF body[i] = Comma /\ depth = 0
       THEN <<Trim(SubSeq(body, start, i - 1))>> \o SplitFrom(body, i + 1, 0, i + 1)
  ELSE IF body[i] \in Opening THEN SplitFrom(body, i + 1, depth + 1, start)
  ELSE IF body[i] \in Closing THEN SplitFrom(body, i + 1, depth - 1, start)
  ELSE SplitFrom(body, i + 1, depth, start)

\* balanced-delimiter splitting of the inside of a bracketed or parenthesised list
SplitTop(body) == IF Trim(body) = <<>> THEN <<>> ELSE SplitFrom(body, 1, 0, 1)

HexVal(c) ==
  IF IsDigit(c) THEN c - 48
  ELSE IF c >= 97 /\ c <= 102 THEN c - 87
  ELSE IF c >= 65 /\ c <= 70 THEN c - 55
  ELSE 16

\* a type that holds a fixed-length string somewhere
RECURSIVE BearsString(_)
BearsString(t) ==
  CASE t.k = "String" -> TRUE
    [] t.k = "Array" -> BearsString(t.inner)
    [] t.k \in {"Tuple", "Struct", "Enum"} -> \E i \in DOMAIN t.ts : BearsString(t.ts[i])
    [] OTHER -> FALSE

TokenizeInt(k, lit) ==
  IF lit = <<>> \/ \E i \in DOMAIN lit : ~IsDigit(lit[i])
  THEN Err([kind |-> "InvalidLiteral"])
  ELSE LET r == ParseDigits(lit, 1, Zeros(WidthOf(k)))
       IN IF r.ok THEN Ok([k |-> k, v |-> r.v])
          ELSE Err([kind |-> "IntegerOutOfRange"])

TokenizeBool(lit) ==
  IF lit = Lit(<<"t", "r", "u", "e">>) THEN Ok([k |-> "Bool", b |-> TRUE])
  ELSE IF lit = Lit(<<"f", "a", "l", "s", "e">>) THEN Ok([k |-> "Bool", b |-> FALSE])
  ELSE Err([kind |-> "InvalidLiteral"])

TokenizeB256(lit) ==
  LET hex == IF Len(lit) >= 2 /\ lit[1] = CharCode["0"] /\ lit[2] = CharCode["x"]
             THEN SubSeq(lit, 3, Len(lit)) ELSE lit
  IN IF Len(hex) = 64 /\ \A i \in DOMAIN hex : HexVal(hex[i]) < 16
     THEN Ok([k |-> "B256",
              v |-> [i \in 1..32 |-> HexVal(hex[2 * i - 1]) * 16 + HexVal(hex[2 * i])]])
     ELSE Err([kind |-> "InvalidHex"])

TokenizeString(n, lit) ==
  IF ~IsAscii(lit) THEN Err([kind |-> "NonAsciiCharacter"])
  ELSE IF Len(lit) # n
       THEN Err([kind |-> "StringLengthMismatch", actual |-> Len(lit), expected |-> n])
  ELSE Ok([k |-> "String", data |-> lit, n |-> n])

\* the enum discriminant spelled by a literal, or -1
Discriminant(lit) ==
  IF lit = <<>> \/ \E i \in DOMAIN lit : ~IsDigit(lit[i]) THEN -1
  ELSE LET r == ParseDigits(lit, 1, Zeros(1)) IN IF r.ok THEN r.v[1] ELSE -1

RECURSIVE tokenize(_, _)
\* an element of an array literal: a bracketed element against an element type
\* that is no array is taken as a nested array of its own length, which
\* nested_array_encode_and_decode asserts ("[[1,2],[3],[4]]" against [u16; 3]
\* encodes to the four words 1, 2, 3, 4)
TokenizeElement(inner, e) ==
  IF Enclosed(e, "[", "]") /\ inner.k # "Array"
  THEN tokenize(ArrayT(inner, Len(SplitTop(Inside(e)))), e)
  ELSE tokenize(inner, e)

TokenizeArray(t, lit) ==
  IF ~Enclosed(lit, "[", "]") THEN Err([kind |-> "InvalidLiteral"])
  ELSE LET es == SplitTop(Inside(lit))
       IN IF Len(es) # t.n
          THEN Err([kind |-> "ArityMismatch", actual |-> Len(es), expected |-> t.n])
          ELSE LET rs == Collect([i \in DOMAIN es |-> TokenizeElement(t.inner, es[i])])
               IN IF IsOk(rs) THEN Ok([k |-> "Array", es |-> rs.val]) ELSE rs

TokenizeFields(t, lit) ==
  IF ~Enclosed(lit, "(", ")") THEN Err([kind |-> "InvalidLiteral"])
  ELSE LET es == SplitTop(Inside(lit))
       IN IF Len(es) # Len(t.ts)
          THEN Err([kind |-> "ArityMismatch", actual |-> Len(es), expected |-> Len(t.ts)])
          ELSE LET rs == Collect([i \in DOMAIN es |-> tokenize(t.ts[i], es[i])])
               IN IF IsOk(rs) THEN Ok([k |-> t.k, es |-> rs.val]) ELSE rs

\* an enum literal is (discriminant, payload), as "(1, 0)" in
\* nested_tuple_encode_and_decode
TokenizeEnum(t, lit) ==
  IF ~Enclosed(lit, "(", ")") THEN Err([kind |-> "InvalidLiteral"])
  ELSE LET es == SplitTop(Inside(lit))
       IN IF Len(es) # 2 \/ Discriminant(es[1]) < 0
             \/ Discriminant(es[1]) >= Len(t.ts)
          THEN Err([kind |-> "InvalidLiteral"])
          ELSE LET d == Discriminant(es[1])
                   r == tokenize(t.ts[d + 1], es[2])
               IN IF IsOk(r) THEN Ok([k |-> "Enum", d |-> d, p |-> r.val]) ELSE r

tokenize(t, lit) ==
  IF BearsString(t) /\ ~IsAscii(lit) THEN Err([kind |-> "NonAsciiCharacter"])
  ELSE CASE t.k = "Unit" -> Ok([k |-> "Unit"])
         [] t.k \in IntKinds -> TokenizeInt(t.k, lit)
         [] t.k = "Bool" -> TokenizeBool(lit)
         [] t.k = "B256" -> TokenizeB256(lit)
         [] t.k = "String" -> TokenizeString(t.n, lit)
         [] t.k = "Array" -> TokenizeArray(t, lit)
         [] t.k \in {"Tuple", "Struct"} -> TokenizeFields(t, lit)
         [] t.k = "Enum" -> TokenizeEnum(t, lit)

(***************************************************************************)
(* Encoder: ABIEncoder::encode.                                            *)
(***************************************************************************)
WORD_SIZE == 8

\* zero bytes up to the next multiple of the word size
Padding(n) == Zeros((WORD_SIZE - (n % WORD_SIZE)) % WORD_SIZE)

RECURSIVE EncodeToken(_)
EncodeToken(tok) ==
  CASE tok.k = "Unit" -> <<>>
    [] tok.k = "Bool" -> Zeros(WORD_SIZE - 1) \o <<IF tok.b THEN 1 ELSE 0>>
    [] tok.k \in IntKinds -> Zeros(WORD_SIZE - Len(tok.v)) \o tok.v
    [] tok.k = "B256" -> tok.v
    [] tok.k = "String" -> tok.data \o Padding(Len(tok.data))
    [] tok.k \in {"Array", "Tuple", "Struct"} ->
         Flatten([i \in DOMAIN tok.es |-> EncodeToken(tok.es[i])])
    [] tok.k = "Enum" -> Zeros(WORD_SIZE - 1) \o <<tok.d>> \o EncodeToken(tok.p)

ABIEncoder_encode(tokens) ==
  Ok(Flatten([i \in DOMAIN tokens |-> EncodeToken(tokens[i])]))

(***************************************************************************)
(* Decoder: ABIDecoder::decode.  The cursor pos counts the bytes consumed. *)
(***************************************************************************)
Decoded(tok, pos) == [kind |-> "ok", val |-> tok, pos |-> pos]
InsufficientBytes == Err([kind |-> "InsufficientBytes"])

\* a discriminant word that is not the index of a variant selects no variant
\* type to decode and no token matches it; the Error kind for invalid data is
\* returned
NoSuchVariant == Err([kind |-> "InvalidData", msg |-> "discriminant selects no variant"])

\* bytes[pos+1 .. pos+n]
Peek(bytes, pos, n) == SubSeq(bytes, pos + 1, pos + n)

RECURSIVE DecodeType(_, _, _)
RECURSIVE DecodeTypes(_, _, _)
\* the tokens of the types ts read one after the other from pos
DecodeTypes(ts, bytes, pos) ==
  IF ts = <<>> THEN Decoded(<<>>, pos)
  ELSE LET r == DecodeType(Head(ts), bytes, pos)
       IN IF ~IsOk(r) THEN r
          ELSE LET rest == DecodeTypes(Tail(ts), bytes, r.pos)
               IN IF ~IsOk(rest) THEN rest
                  ELSE Decoded(<<r.val>> \o rest.val, rest.pos)

DecodeType(t, bytes, pos) ==
  CASE t.k = "Unit" -> Decoded([k |-> "Unit"], pos)
    [] t.k = "Bool" ->
         IF pos + WORD_SIZE > Len(bytes) THEN InsufficientBytes
         ELSE Decoded([k |-> "Bool", b |-> bytes[pos + WORD_SIZE] # 0], pos + WORD_SIZE)
    [] t.k \in IntKinds ->
         IF pos + WORD_SIZE > Len(bytes) THEN InsufficientBytes
         ELSE Decoded([k |-> t.k,
                       v |-> SubSeq(bytes, pos + WORD_SIZE - WidthOf(t.k) + 1,
                                    pos + WORD_SIZE)],
                      pos + WORD_SIZE)
    [] t.k = "B256" ->
         IF pos + 32 > Len(bytes) THEN InsufficientBytes
         ELSE Decoded([k |-> "B256", v |-> Peek(bytes, pos, 32)], pos + 32)
    [] t.k = "String" ->
         LET padded == t.n + Len(Padding(t.n))
         IN IF pos + padded > Len(bytes) THEN InsufficientBytes
            ELSE Decoded([k |-> "String", data |-> Peek(bytes, pos, t.n), n |-> t.n],
                         pos + padded)
    [] t.k = "Array" ->
         LET r == DecodeTypes([i \in 1..t.n |-> t.inner], bytes, pos)
         IN IF IsOk(r) THEN Decoded([k |-> "Array", es |-> r.val], r.pos) ELSE r
    [] t.k \in {"Tuple", "Struct"} ->
         LET r == DecodeTypes(t.ts, bytes, pos)
         IN IF IsOk(r) THEN Decoded([k |-> t.k, es |-> r.val], r.pos) ELSE r
    [] t.k = "Enum" ->
         IF pos + WORD_SIZE > Len(bytes) THEN InsufficientBytes
         ELSE LET d == bytes[pos + WORD_SIZE]
              IN IF ~IsZero(Peek(bytes, pos, WORD_SIZE - 1)) \/ d >= Len(t.ts)
                 THEN NoSuchVariant
                 ELSE LET r == DecodeType(t.ts[d + 1], bytes, pos + WORD_SIZE)
                      IN IF IsOk(r)
                         THEN Decoded([k |-> "Enum", d |-> d, p |-> r.val], r.pos)
                         ELSE r

\* the tokens, and the number of bytes the cursor consumed
ABIDecoder_decode(types, bytes) == DecodeTypes(types, bytes, 0)

(***************************************************************************)
(* hex::encode and hex::decode: two nibbles per byte.                      *)
(***************************************************************************)
hex_encode(bytes) ==
  [i \in 1..(2 * Len(bytes)) |->
     IF i % 2 = 1 THEN bytes[(i + 1) \div 2] \div 16 ELSE bytes[i \div 2] % 16]

hex_decode(hex) ==
  [i \in 1..(Len(hex) \div 2) |-> hex[2 * i - 1] * 16 + hex[2 * i]]

(***************************************************************************)
(* ABIParser.  fn_selector is an Option<Vec<u8>>: <<>> is None and <<v>>   *)
(* is Some(v).  An operation that takes &mut self yields the result handed *)
(* to the caller and the fn_selector it leaves behind.                     *)
(***************************************************************************)
None == <<>>
Some(v) == <<v>>

Done(r, sel) == [result |-> r, fn_selector |-> sel]

\* ABIParser::new
new == None

\* lines 82-90: the inputs zipped with the values, each input resolved
params_and_values(entry, types, values) ==
  Collect([i \in 1..Min(Len(entry.inputs), Len(values)) |->
     LET id == entry.inputs[i].type
     IN IF id \notin DOMAIN types THEN Panic("called Option::unwrap() on a None value")
        ELSE LET t == from_type_declaration(types[id], types)
             IN IF IsOk(t) THEN Ok(<<t.val, values[i]>>) ELSE t])

\* parse_tokens that skips the literals that do not tokenize
parse_tokens_skipping(params) ==
  LET rs == [i \in DOMAIN params |-> tokenize(params[i][1], params[i][2])]
      RECURSIVE Kept(_)
      Kept(i) == IF i > Len(rs) THEN <<>>
                 ELSE (IF IsOk(rs[i]) THEN <<rs[i].val>> ELSE <<>>) \o Kept(i + 1)
  IN Ok(Kept(1))

\* parse_tokens that returns the tokens in the reverse order of the pairs
parse_tokens_reversed(params) ==
  Collect([i \in DOMAIN params |->
     tokenize(params[Len(params) + 1 - i][1], params[Len(params) + 1 - i][2])])

\* ABIParser::parse_tokens over (ParamType, literal) pairs
parse_tokens(params) ==
  Collect([i \in DOMAIN params |-> tokenize(params[i][1], params[i][2])])

\* encode that puts the selector word in front of the body
encode_with_selector_in_body(self, abi, fn_name, values) ==
  LET found == FindFunction(abi, fn_name)
  IN IF found = <<>> THEN Done(Panic("No functions found"), self)
     ELSE LET entry == found[1]
              types == get_types(abi)
          IN IF ~IsOk(InputTypes(entry, types))
             THEN Done(Panic("resolve_fn_selector"), self)
             ELSE LET sel == Some(first_four_bytes_of_sha256_hash(
                                    resolve_fn_selector(entry, types)))
                      pv == params_and_values(entry, types, values)
                      tokens == parse_tokens(pv.val)
                      bytes == ABIEncoder_encode(tokens.val)
                  IN IF ~IsOk(pv) THEN Done(pv, sel)
                     ELSE IF ~IsOk(tokens) THEN Done(tokens, sel)
                     ELSE IF ~IsOk(bytes) THEN Done(bytes, sel)
                     ELSE Done(Ok(hex_encode(sel[1] \o bytes.val)), sel)

\* encode that stores a selector only when the parser holds none
encode_keeping_selector(self, abi, fn_name, values) ==
  LET found == FindFunction(abi, fn_name)
  IN IF found = <<>> THEN Done(Panic("No functions found"), self)
     ELSE LET entry == found[1]
              types == get_types(abi)
          IN IF ~IsOk(InputTypes(entry, types))
             THEN Done(Panic("resolve_fn_selector"), self)
             ELSE LET sel == IF self # None THEN self
                             ELSE Some(first_four_bytes_of_sha256_hash(
                                         resolve_fn_selector(entry, types)))
                      pv == params_and_values(entry, types, values)
                      tokens == parse_tokens(pv.val)
                      bytes == ABIEncoder_encode(tokens.val)
                  IN IF ~IsOk(pv) THEN Done(pv, sel)
                     ELSE IF ~IsOk(tokens) THEN Done(tokens, sel)
                     ELSE IF ~IsOk(bytes) THEN Done(bytes, sel)
                     ELSE Done(Ok(hex_encode(bytes.val)), sel)

\* ABIParser::encode
encode(self, abi, fn_name, values) ==
  LET found == FindFunction(abi, fn_name)
  IN IF found = <<>> THEN Done(Panic("No functions found"), self)
     ELSE LET entry == found[1]
              types == get_types(abi)
          IN IF ~IsOk(InputTypes(entry, types))
             THEN Done(Panic("resolve_fn_selector"), self)
             ELSE LET sel == Some(first_four_bytes_of_sha256_hash(
                                    resolve_fn_selector(entry, types)))
                      pv == params_and_values(entry, types, values)
                      tokens == parse_tokens(pv.val)
                      bytes == ABIEncoder_encode(tokens.val)
                  IN IF ~IsOk(pv) THEN Done(pv, sel)
                     ELSE IF ~IsOk(tokens) THEN Done(tokens, sel)
                     ELSE IF ~IsOk(bytes) THEN Done(bytes, sel)
                     ELSE Done(Ok(hex_encode(bytes.val)), sel)

\* encode_with_function_selector that writes the 4 hash bytes without the
\* 4 zero bytes in front of them
encode_with_bare_selector(self, abi, fn_name, values) ==
  LET e == encode(self, abi, fn_name, values)
  IN IF ~IsOk(e.result) THEN e
     ELSE IF e.fn_selector = None
          THEN Done(Panic("Function selector not encoded"), e.fn_selector)
     ELSE Done(Ok(hex_encode(SubSeq(e.fn_selector[1], 5, 8)) \o e.result.val),
               e.fn_selector)

\* ABIParser::encode_with_function_selector
encode_with_function_selector(self, abi, fn_name, values) ==
  LET e == encode(self, abi, fn_name, values)
  IN IF ~IsOk(e.result) THEN e
     ELSE IF e.fn_selector = None
          THEN Done(Panic("Function selector not encoded"), e.fn_selector)
     ELSE Done(Ok(hex_encode(e.fn_selector[1]) \o e.result.val), e.fn_selector)

\* ABIParser::decode
decode(abi, fn_name, value) ==
  LET found == FindFunction(abi, fn_name)
      types == get_types(abi)
  IN IF found = <<>>
     THEN Err([kind |-> "InvalidData", msg |-> "couldn't find function name"])
     ELSE IF found[1].output.type \notin DOMAIN types THEN Panic("No output type")
     ELSE LET t == from_type_declaration(types[found[1].output.type], types)
          IN IF IsOk(t) THEN ABIDecoder_decode(<<t.val>>, value) ELSE t

\* decode_params that decodes the first parameter only
decode_params_first_only(params, data) == ABIDecoder_decode(SubSeq(params, 1, 1), data)

\* ABIParser::decode_params
decode_params(params, data) == ABIDecoder_decode(params, data)

(***************************************************************************)
(* The values and literals the calls are made with.                        *)
(***************************************************************************)
Texts ==
  {Lit(<<"f", "u", "e", "l">>), Lit(<<"J", "o", "h", "n">>),
   Lit(<<"f", "u", "e", "l", "l", "a", "b", "s">>)}

\* the sample values of a type; an integer nested in a composite is drawn
\* from 0..MaxSmall, a top-level one also takes the maximum of its width
RECURSIVE Values(_, _)
RECURSIVE ValueLists(_, _)
ValueLists(ts, top) ==
  IF ts = <<>> THEN {<<>>}
  ELSE {<<h>> \o r : h \in Values(Head(ts), top), r \in ValueLists(Tail(ts), top)}

Values(t, top) ==
  CASE t.k = "Unit" -> {[k |-> "Unit"]}
    [] t.k = "Bool" -> {[k |-> "Bool", b |-> b] : b \in BOOLEAN}
    [] t.k \in IntKinds ->
         {[k |-> t.k, v |-> Num(n, WidthOf(t.k))] : n \in 0..MaxSmall}
         \cup (IF top THEN {[k |-> t.k, v |-> [i \in 1..WidthOf(t.k) |-> 255]]} ELSE {})
    [] t.k = "B256" -> {[k |-> "B256", v |-> [i \in 1..32 |-> (37 * i) % 256]]}
    [] t.k = "String" ->
         {[k |-> "String", data |-> SubSeq(x, 1, t.n), n |-> t.n] :
            x \in {y \in Texts : Len(y) >= t.n}}
    [] t.k = "Array" ->
         {[k |-> "Array", es |-> es] :
            es \in ValueLists([i \in 1..t.n |-> t.inner], FALSE)}
    [] t.k \in {"Tuple", "Struct"} ->
         {[k |-> t.k, es |-> es] : es \in ValueLists(t.ts, FALSE)}
    [] t.k = "Enum" ->
         UNION {{[k |-> "Enum", d |-> i - 1, p |-> p] : p \in Values(t.ts[i], FALSE)} :
                  i \in DOMAIN t.ts}

HexDigit(n) == IF n < 10 THEN 48 + n ELSE 87 + n

RECURSIVE Join(_, _)
\* the literals joined by sep
Join(lits, sep) ==
  IF lits = <<>> THEN <<>>
  ELSE IF Len(lits) = 1 THEN lits[1]
  ELSE lits[1] \o sep \o Join(Tail(lits), sep)

\* the literal of a value
RECURSIVE Render(_)
Render(tok) ==
  CASE tok.k = "Unit" -> Lit(<<"(", ")">>)
    [] tok.k = "Bool" ->
         IF tok.b THEN Lit(<<"t", "r", "u", "e">>) ELSE Lit(<<"f", "a", "l", "s", "e">>)
    [] tok.k \in IntKinds -> Decimal(tok.v)
    [] tok.k = "B256" ->
         [i \in 1..64 |-> IF i % 2 = 1 THEN HexDigit(tok.v[(i + 1) \div 2] \div 16)
                          ELSE HexDigit(tok.v[i \div 2] % 16)]
    [] tok.k = "String" -> tok.data
    [] tok.k = "Array" ->
         Lit(<<"[">>) \o Join([i \in DOMAIN tok.es |-> Render(tok.es[i])], <<Comma>>)
           \o Lit(<<"]">>)
    [] tok.k \in {"Tuple", "Struct"} ->
         Lit(<<"(">>) \o Join([i \in DOMAIN tok.es |-> Render(tok.es[i])], <<Comma>>)
           \o Lit(<<")">>)
    [] tok.k = "Enum" ->
         Lit(<<"(">>) \o Decimal(<<tok.d>>) \o <<Comma>> \o Render(tok.p) \o Lit(<<")">>)

RenderAll(vs) == [i \in DOMAIN vs |-> Render(vs[i])]

SchemaOf ==
  ("tests" :> Abi) @@ ("dangling" :> AbiDangling) @@ ("renamed" :> AbiRenamed)
    @@ ("cyclic" :> AbiCyclic)

FunctionNames(abi) == {abi.functions[i].name : i \in DOMAIN abi.functions}

\* the resolved input types of a function of the tests' schema
TypesOf(fn_name) == InputTypes(FindFunction(Abi, fn_name)[1], get_types(Abi)).val

\* every function of the tests' schema with every list of sample values
GoodCalls ==
  UNION {{[abi |-> "tests", fn |-> f, vs |-> vs, values |-> RenderAll(vs)] :
            vs \in ValueLists(TypesOf(f), TRUE)} : f \in FunctionNames(Abi)}

\* letters to cut string literals from
Filler == Lit(<<"f", "u", "e", "l", "l", "a", "b", "s">>)

\* U+0141
NonAsciiChar == CharCode["L/"]

\* the bracketed list literal [1,2,...,n]
ArrayLit(n) ==
  Lit(<<"[">>) \o Join([i \in 1..n |-> Decimal(<<i>>)], <<Comma>>) \o Lit(<<"]">>)

Around(n) == {m \in (n - MaxExtra)..(n + MaxExtra) : m >= 0}

\* array literals of about n elements
ArrayLits(n) == {ArrayLit(m) : m \in Around(n)}

\* ASCII string literals of about n characters, and the same with their last
\* character replaced by a non-ASCII one
AsciiLits(n) == {SubSeq(Filler, 1, m) : m \in Around(n)}
NonAsciiLits(n) ==
  {SubSeq(Filler, 1, m - 1) \o <<NonAsciiChar>> : m \in Around(n) \ {0}}
StringLits(n) == AsciiLits(n) \cup NonAsciiLits(n)

\* the literal (first, second) of a two-field struct, written as the tests do
PairLit(first, second) ==
  Lit(<<"(">>) \o first \o Lit(<<",", " ">>) \o second \o Lit(<<")">>)

Call(abi, fn, values) == [abi |-> abi, fn |-> fn, values |-> values]

\* the unsigned integer types of a bit width
UIntKinds == {"U8", "U16", "U32", "U64"}

\* decimal literals at the top of the range of an integer type: the maximum
\* 2^w - 1, and 2^w + m for the first few m
IntLits(k) ==
  {Decimal(<<0>> \o [i \in 1..WidthOf(k) |-> 255])}
  \cup {Decimal(<<1>> \o Num(m, WidthOf(k))) : m \in 0..MaxExtra}

\* the literals of the module's tests
TestCalls ==
  { Call("tests", "takes_u32_returns_bool", <<Lit(<<"1", "0">>)>>),
    Call("tests", "takes_array",
         <<Lit(<<"[", "[", "1", ",", "2", "]", ",", "[", "3", "]", ",",
                 "[", "4", "]", "]">>)>>),
    Call("tests", "takes_struct_and_primitive",
         <<Lit(<<"(", "4", "2", ",", " ", "t", "r", "u", "e", ")">>), Lit(<<"1", "0">>)>>),
    Call("tests", "takes_nested_tuple",
         <<Lit(<<"(", "(", "4", "2", ",", " ", "t", "r", "u", "e", ")", ",", " ",
                 "(", "J", "o", "h", "n", ")", ",", " ",
                 "(", "1", ",", " ", "0", ")", ")">>)>>) }

\* literals that do not fit their type, functions and types that do not exist,
\* and value lists shorter or longer than the inputs
OddCalls ==
     {Call("tests", "takes_array", <<l>>) : l \in ArrayLits(3)}
  \cup {Call("tests", "takes_string", <<l>>) : l \in StringLits(4)}
  \cup {Call("tests", "takes_struct", <<PairLit(a, l)>>) :
          a \in ArrayLits(2), l \in StringLits(4)}
  \cup {Call("tests", "takes_struct", <<PairLit(Lit(<<"[", "0", ",", "3", "0", "0", "]">>), l)>>) :
          l \in StringLits(4)}
  \cup {Call("tests", "takes_matrix", <<Lit(<<"[">>) \o a \o <<Comma>> \o b \o Lit(<<"]">>)>>) :
          a \in ArrayLits(2), b \in {ArrayLit(2)}}
  \cup {Call(abi, "no_such_function", <<Lit(<<"1", "0">>)>>) : abi \in DOMAIN SchemaOf}
  \cup {Call("dangling", f, <<Lit(<<"1", "0">>), Lit(<<"1", "0">>)>>) :
          f \in FunctionNames(AbiDangling)}
  \cup {Call("cyclic", "takes_node", <<Lit(<<"(", "1", ",", " ", "(", "1", ",", " ", "1", ")", ")">>)>>),
        Call("cyclic", "returns_loop", <<Lit(<<"1">>)>>)}
  \cup {Call("tests", "takes_struct_and_primitive", vs) :
          vs \in {<<>>, <<Lit(<<"(", "1", ",", "t", "r", "u", "e", ")">>)>>}}
  \cup {Call("tests", "takes_u32_returns_bool", <<Lit(<<"1", "0">>), Lit(<<"1", "1">>)>>)}

\* takes_struct called on the schema with the other names
RenamedCalls ==
  {Call("renamed", "takes_struct", <<PairLit(Lit(<<"[", "0", ",", " ", "0", "]">>), l)>>) :
     l \in AsciiLits(4)}

EncodeInputs ==
  {Call(c.abi, c.fn, c.values) : c \in GoodCalls} \cup TestCalls \cup OddCalls
    \cup RenamedCalls

\* (ParamType, literal) lists for parse_tokens: the resolved inputs of the
\* tests' and the odd calls, and of every sample value of three functions
ParseInputs ==
  {[i \in 1..Min(Len(c.values), Len(TypesOf(c.fn))) |-> <<TypesOf(c.fn)[i], c.values[i]>>] :
     c \in {x \in EncodeInputs :
              /\ x.abi = "tests"
              /\ x.fn \in FunctionNames(Abi)
              /\ \/ x \in TestCalls \cup OddCalls
                 \/ x.fn \in {"my_func", "takes_shape", "takes_matrix"}}}
  \cup UNION {{<<<<Prim(k), l>>>> : l \in IntLits(k)} : k \in UIntKinds}

\* the resolved output type of a function of the tests' schema
OutputOf(fn_name) == ResolveId(FindFunction(Abi, fn_name)[1].output.type, get_types(Abi)).val

\* a byte string, its truncations by up to MaxExtra bytes, and the empty one
Truncations(bytes) ==
  {SubSeq(bytes, 1, Len(bytes) - m) : m \in {x \in 0..MaxExtra : x <= Len(bytes)}}
  \cup {<<>>}

\* return bytes for decode: the encodings of the sample values of the output
\* type, whole and truncated
DecodeInputs ==
  UNION {{[abi |-> "tests", fn |-> f, value |-> b] :
            b \in UNION {Truncations(EncodeToken(v)) : v \in Values(OutputOf(f), TRUE)}} :
           f \in FunctionNames(Abi)}
  \cup {[abi |-> abi, fn |-> "no_such_function", value |-> Zeros(WORD_SIZE)] :
          abi \in DOMAIN SchemaOf}
  \cup {[abi |-> "dangling", fn |-> f, value |-> Zeros(WORD_SIZE)] :
          f \in FunctionNames(AbiDangling)}
  \cup {[abi |-> "cyclic", fn |-> f, value |-> Zeros(2 * WORD_SIZE)] :
          f \in FunctionNames(AbiCyclic)}

\* types and bytes for decode_params that no encode call produced
DecodeParamsInputs ==
  UNION {{[params |-> TypesOf(f), data |-> b] :
            b \in UNION {Truncations(Flatten([i \in DOMAIN vs |-> EncodeToken(vs[i])])) :
                           vs \in ValueLists(TypesOf(f), FALSE)}} :
           f \in {"my_func", "takes_string", "takes_shape"}}

\* bytes that no encoder produced: words of 255s for scalars and a string,
\* and discriminant words that are not the index of a variant
Unencoded ==
  {[params |-> TypesOf("takes_flags"), data |-> [i \in 1..(2 * WORD_SIZE) |-> 255]],
   [params |-> TypesOf("takes_wide"), data |-> [i \in 1..(2 * WORD_SIZE) |-> 255]],
   [params |-> TypesOf("takes_string"), data |-> [i \in 1..WORD_SIZE |-> 255]]}
  \cup {[params |-> TypesOf("takes_shape"), data |-> Num(d, WORD_SIZE) \o Num(1, WORD_SIZE)] :
          d \in 3..(3 + MaxExtra)}
  \cup {[params |-> TypesOf("takes_shape"),
          data |-> <<1>> \o Num(0, WORD_SIZE - 1) \o Num(1, WORD_SIZE)]}

\* the values fn_selector can hold
Selectors ==
  {None}
  \cup UNION {{Some(first_four_bytes_of_sha256_hash(resolve_fn_selector(e, get_types(abi)))) :
                 e \in {x \in Range(abi.functions) : IsOk(InputTypes(x, get_types(abi)))}} :
              abi \in Schemas}

(***************************************************************************)
(* The outcome of every call, on every parser state for the calls that     *)
(* take &mut self.  The operations are functions of their arguments, so    *)
(* the outcomes are tabulated once and the actions pick from the tables.   *)
(***************************************************************************)
EncodeCalls ==
  {[self |-> s, abi |-> c.abi, fn |-> c.fn, values |-> c.values,
    out |-> encode(s, SchemaOf[c.abi], c.fn, c.values)] :
     s \in Selectors, c \in EncodeInputs}

SelectorCalls ==
  {[self |-> s, abi |-> c.abi, fn |-> c.fn, values |-> c.values,
    out |-> encode_with_function_selector(s, SchemaOf[c.abi], c.fn, c.values)] :
     s \in Selectors, c \in EncodeInputs}

ParseCalls == {[params |-> p, result |-> parse_tokens(p)] : p \in ParseInputs}

DecodeCalls ==
  {[abi |-> d.abi, fn |-> d.fn, value |-> d.value,
    result |-> decode(SchemaOf[d.abi], d.fn, d.value)] : d \in DecodeInputs}

DecodeParamsCalls ==
  {[params |-> d.params, data |-> d.data, result |-> decode_params(d.params, d.data)] :
     d \in DecodeParamsInputs \cup Unencoded}

(***************************************************************************)
(* The state machine: one ABIParser, and the last call made on it.         *)
(***************************************************************************)
Init ==
  /\ fn_selector = new
  /\ call = [op |-> "new"]

\* abi.encode(abi, fn, values)
Encode(c) ==
  /\ c.self = fn_selector
  /\ fn_selector' = c.out.fn_selector
  /\ call' = [op |-> "encode", abi |-> c.abi, fn |-> c.fn, values |-> c.values,
              result |-> c.out.result]

\* abi.encode_with_function_selector(abi, fn, values)
EncodeWithFunctionSelector(c) ==
  /\ c.self = fn_selector
  /\ fn_selector' = c.out.fn_selector
  /\ call' = [op |-> "encode_with_function_selector", abi |-> c.abi, fn |-> c.fn,
              values |-> c.values, result |-> c.out.result]

\* abi.parse_tokens(params)
ParseTokens(c) ==
  /\ call' = [op |-> "parse_tokens", params |-> c.params, result |-> c.result]
  /\ UNCHANGED fn_selector

\* abi.decode(abi, fn, value)
Decode(c) ==
  /\ call' = [op |-> "decode", abi |-> c.abi, fn |-> c.fn, value |-> c.value,
              result |-> c.result]
  /\ UNCHANGED fn_selector

\* abi.decode_params(params, data) on bytes no encode call produced
DecodeParams(c) ==
  /\ call' = [op |-> "decode_params", params |-> c.params, data |-> c.data,
              encoded |-> <<>>, result |-> c.result]
  /\ UNCHANGED fn_selector

\* abi.decode_params on the body encode just returned, against the input
\* types of the encoded function; encoded records that encode call
DecodeEncoded ==
  /\ call.op = "encode"
  /\ IsOk(call.result)
  /\ call.abi = "tests"
  /\ LET params == TypesOf(call.fn)
         data == hex_decode(call.result.val)
     IN call' = [op |-> "decode_params", params |-> params, data |-> data,
                 encoded |-> <<Call(call.abi, call.fn, call.values)>>,
                 result |-> decode_params(params, data)]
  /\ UNCHANGED fn_selector

Next ==
  \/ \E c \in EncodeCalls : Encode(c)
  \/ \E c \in SelectorCalls : EncodeWithFunctionSelector(c)
  \/ \E c \in ParseCalls : ParseTokens(c)
  \/ \E c \in DecodeCalls : Decode(c)
  \/ \E c \in DecodeParamsCalls : DecodeParams(c)
  \/ DecodeEncoded

Spec == Init /\ [][Next]_vars

(***************************************************************************)
(* Helpers of the properties.                                              *)
(***************************************************************************)
IsEncodeCall == call.op \in {"encode", "encode_with_function_selector"}

\* the entry of the called function, <<>> when the schema has none
CalledEntry == FindFunction(SchemaOf[call.abi], call.fn)

\* the resolved input types of the called function
CalledInputs == InputTypes(CalledEntry[1], get_types(SchemaOf[call.abi]))

\* the call tokenizes literals against types
HasPairs ==
  \/ call.op = "parse_tokens"
  \/ IsEncodeCall /\ CalledEntry # <<>> /\ IsOk(CalledInputs)

\* the (type, literal) pairs the call tokenizes, in order
Pairs ==
  IF call.op = "parse_tokens" THEN call.params
  ELSE [i \in 1..Min(Len(CalledInputs.val), Len(call.values)) |->
          <<CalledInputs.val[i], call.values[i]>>]

\* the pairs before the i-th all tokenize
EarlierTokenize(i) == \A j \in 1..(i - 1) : IsOk(tokenize(Pairs[j][1], Pairs[j][2]))

\* a token has the shape of a type
RECURSIVE Matches(_, _)
Matches(t, tok) ==
  CASE t.k = "String" -> tok.k = "String" /\ tok.n = t.n /\ Len(tok.data) = t.n
    [] t.k = "Array" ->
         /\ tok.k = "Array"
         /\ Len(tok.es) = t.n
         /\ \A i \in DOMAIN tok.es : Matches(t.inner, tok.es[i])
    [] t.k \in {"Tuple", "Struct"} ->
         /\ tok.k = t.k
         /\ Len(tok.es) = Len(t.ts)
         /\ \A i \in DOMAIN tok.es : Matches(t.ts[i], tok.es[i])
    [] t.k = "Enum" ->
         tok.k = "Enum" /\ tok.d < Len(t.ts) /\ Matches(t.ts[tok.d + 1], tok.p)
    [] OTHER -> tok.k = t.k

(***************************************************************************)
(* Properties.                                                             *)
(***************************************************************************)
\* C1: every sample value of every input type encodes from its literal, and
\* decoding the body encode returned against the input types yields exactly
\* the values, the cursor ending at the end of the body.
RoundTrip ==
  /\ call.op = "encode" =>
       \A g \in GoodCalls :
         (g.abi = call.abi /\ g.fn = call.fn /\ g.values = call.values)
           => IsOk(call.result)
  /\ (call.op = "decode_params" /\ call.encoded # <<>>) =>
       \A g \in GoodCalls :
         (g.abi = call.encoded[1].abi /\ g.fn = call.encoded[1].fn
            /\ g.values = call.encoded[1].values)
           => /\ IsOk(call.result)
              /\ call.result.val = g.vs
              /\ call.result.pos = Len(call.data)

\* a nested tuple with a struct, a string and an enum made the round trip
RoundTripWitness ==
  /\ call.op = "decode_params"
  /\ call.encoded # <<>>
  /\ call.encoded[1].fn = "takes_nested_tuple"
  /\ \E g \in GoodCalls : g.fn = call.encoded[1].fn /\ g.values = call.encoded[1].values
  /\ IsOk(call.result)
  /\ call.result.pos = 4 * WORD_SIZE

\* C2: when encode succeeds, encode_with_function_selector returns one 8-byte
\* word, 4 zero bytes then the first 4 bytes of the hash of the signature,
\* followed by exactly the body encode returns for the same arguments.
SelectorWordThenBody ==
  call.op = "encode_with_function_selector" =>
    LET e == encode(fn_selector, SchemaOf[call.abi], call.fn, call.values)
        sig == resolve_fn_selector(CalledEntry[1], get_types(SchemaOf[call.abi]))
    IN IsOk(e.result) =>
         /\ IsOk(call.result)
         /\ LET bytes == hex_decode(call.result.val)
            IN /\ Len(call.result.val) = 2 * Len(bytes)
               /\ Len(bytes) = WORD_SIZE + Len(hex_decode(e.result.val))
               /\ SubSeq(bytes, 1, 4) = <<0, 0, 0, 0>>
               /\ SubSeq(bytes, 5, WORD_SIZE) = Sha256Prefix[sig]
               /\ SubSeq(call.result.val, 2 * WORD_SIZE + 1, Len(call.result.val))
                    = e.result.val

\* the payload of takes_array with "[1,2,3]": selector word 101cbeb5 and 3 words
SelectorWordThenBodyWitness ==
  /\ call.op = "encode_with_function_selector"
  /\ call.fn = "takes_array"
  /\ IsOk(call.result)
  /\ hex_decode(call.result.val)
       = <<0, 0, 0, 0, 16, 28, 190, 181>> \o Num(1, 8) \o Num(2, 8) \o Num(3, 8)

FunctionNotFoundIsReturned ==
  (IsEncodeCall /\ CalledEntry = <<>>) =>
    (call.result.kind = "err" /\ call.result.err.kind = "FunctionNotFound")

\* C5: decode on a function whose output type id is absent from the schema
\* returns the error OutputTypeMissing (stated as claimed; the code aborts).
OutputTypeMissingIsReturned ==
  (/\ call.op = "decode"
   /\ CalledEntry # <<>>
   /\ CalledEntry[1].output.type \notin DOMAIN get_types(SchemaOf[call.abi])) =>
    (call.result.kind = "err" /\ call.result.err.kind = "OutputTypeMissing")

\* C6: encode on a function one of whose inputs references an absent type id
\* returns the error UnknownType (stated as claimed; the code aborts).
UnknownTypeIsReturned ==
  (/\ IsEncodeCall
   /\ CalledEntry # <<>>
   /\ \E i \in DOMAIN CalledEntry[1].inputs :
        CalledEntry[1].inputs[i].type \notin DOMAIN get_types(SchemaOf[call.abi])) =>
    (call.result.kind = "err" /\ call.result.err.kind = "UnknownType")

\* C7: every token parse_tokens returns has the shape of the type it was
\* tokenized against (stated as claimed; a bracketed element against a
\* non-array element type is taken as a nested array).
TokensMatchTypes ==
  (call.op = "parse_tokens" /\ IsOk(call.result)) =>
    \A i \in DOMAIN call.params : Matches(call.params[i][1], call.result.val[i])

\* C8: a bracketed list literal against Array(inner, N) whose number of
\* top-level elements differs from N fails with ArityMismatch, and encode and
\* encode_with_function_selector return that error.
ArityMismatchIsReturned ==
  HasPairs =>
    \A i \in DOMAIN Pairs :
      LET t == Pairs[i][1]
          lit == Pairs[i][2]
      IN (/\ t.k = "Array"
          /\ Enclosed(lit, "[", "]")
          /\ Len(SplitTop(Inside(lit))) # t.n
          /\ EarlierTokenize(i))
         => call.result = Err([kind |-> "ArityMismatch",
                               actual |-> Len(SplitTop(Inside(lit))), expected |-> t.n])

\* encode was given [1,2,3,4] for a [u16; 3]
ArityMismatchWitness ==
  /\ call.op = "encode"
  /\ call.fn = "takes_array"
  /\ call.values = <<ArrayLit(4)>>
  /\ call.result.kind = "err"
  /\ call.result.err.kind = "ArityMismatch"

\* the fixed-string literals of a pair: the literal itself against a
\* FixedString, and the elements of a parenthesised literal that stand at the
\* FixedString fields of a struct or tuple
StringsOf(t, lit) ==
  CASE t.k = "String" -> {[n |-> t.n, s |-> lit, first |-> TRUE]}
    [] t.k \in {"Struct", "Tuple"} ->
         IF Enclosed(lit, "(", ")") /\ Len(SplitTop(Inside(lit))) = Len(t.ts)
         THEN LET es == SplitTop(Inside(lit))
              IN {[n |-> t.ts[j].n, s |-> es[j],
                   first |-> \A h \in 1..(j - 1) : IsOk(tokenize(t.ts[h], es[h]))] :
                    j \in {j \in DOMAIN es : t.ts[j].k = "String"}}
         ELSE {}
    [] OTHER -> {}

\* a fixed-string literal of the wrong length, the first failure of the call,
\* is reported as StringLengthMismatch with the two lengths
LengthMismatchReported(asciiOnly) ==
  HasPairs =>
    \A i \in DOMAIN Pairs :
      \A o \in StringsOf(Pairs[i][1], Pairs[i][2]) :
        (/\ Len(o.s) # o.n
         /\ o.first
         /\ EarlierTokenize(i)
         /\ asciiOnly => IsAscii(Pairs[i][2]))
        => call.result = Err([kind |-> "StringLengthMismatch",
                              actual |-> Len(o.s), expected |-> o.n])

NonAsciiIsReported ==
  HasPairs =>
    \A i \in DOMAIN Pairs :
      \A o \in StringsOf(Pairs[i][1], Pairs[i][2]) :
        (~IsAscii(o.s) /\ EarlierTokenize(i))
          => call.result = Err([kind |-> "NonAsciiCharacter"])

\* encode was given a struct literal whose str[4] field has 4 characters, the
\* last of them non-ASCII
NonAsciiIsReportedWitness ==
  /\ call.op = "encode"
  /\ call.fn = "takes_struct"
  /\ \E o \in StringsOf(CalledInputs.val[1], call.values[1]) :
       Len(o.s) = o.n /\ ~IsAscii(o.s) /\ o.first
  /\ call.result = Err([kind |-> "NonAsciiCharacter"])

\* the value of a decimal literal, in bytes wide enough for every literal
\* the calls are made with
WideValue(lit) == ParseDigits(lit, 1, Zeros(2 * WORD_SIZE)).v

\* C11: a decimal literal against U8, U16, U32 or U64 tokenizes to its value
\* when the value is at most 2^w - 1 and fails with IntegerOutOfRange when it
\* is larger; it is never wrapped or truncated to the width.
IntegerRangeIsChecked ==
  HasPairs =>
    \A i \in DOMAIN Pairs :
      LET t == Pairs[i][1]
          lit == Pairs[i][2]
          w == WidthOf(t.k)
          wide == WideValue(lit)
      IN (/\ t.k \in UIntKinds
          /\ lit # <<>>
          /\ \A j \in DOMAIN lit : IsDigit(lit[j])
          /\ EarlierTokenize(i))
         => IF IsZero(SubSeq(wide, 1, Len(wide) - w))
            THEN /\ call.result.kind # "err"
                 /\ call.op = "parse_tokens" =>
                      call.result.val[i]
                        = [k |-> t.k, v |-> SubSeq(wide, Len(wide) - w + 1, Len(wide))]
            ELSE call.result = Err([kind |-> "IntegerOutOfRange"])

\* parse_tokens was given 2^64 + 1 for a u64, which wrapped would be 1
IntegerRangeIsCheckedWitness ==
  /\ call.op = "parse_tokens"
  /\ call.params = <<<<Prim("U64"), Decimal(<<1>> \o Num(1, 8))>>>>
  /\ call.result = Err([kind |-> "IntegerOutOfRange"])

\* the sample calls the call of the state was made from
Samples == {g \in GoodCalls : g.abi = call.abi /\ g.fn = call.fn /\ g.values = call.values}

ScalarKinds == {"Unit", "Bool", "Byte", "U8", "U16", "U32", "U64", "B256"}

\* the wire form of a scalar value: nothing for Unit, the 32 bytes of a B256,
\* one word with the value in its low bytes for the others
WordOf(v) ==
  CASE v.k = "Unit" -> <<>>
    [] v.k = "B256" -> v.v
    [] v.k = "Bool" -> <<0, 0, 0, 0, 0, 0, 0, IF v.b THEN 1 ELSE 0>>
    [] OTHER -> [i \in 1..8 |-> IF i <= 8 - Len(v.v) THEN 0 ELSE v.v[i - (8 - Len(v.v))]]

\* C12: a Bool, Byte, U8, U16, U32 or U64 encodes to one 8-byte big-endian
\* word with the value in the low bytes and zero high bytes, Unit to no bytes
\* and B256 to its 32 bytes.
ScalarsEncodeToWords ==
  call.op = "encode" =>
    \A g \in Samples :
      (\A i \in DOMAIN g.vs : g.vs[i].k \in ScalarKinds)
        => /\ IsOk(call.result)
           /\ hex_decode(call.result.val) = Flatten([i \in DOMAIN g.vs |-> WordOf(g.vs[i])])

\* encode was given the largest u16 and the largest u64
ScalarsEncodeToWordsWitness ==
  /\ call.op = "encode"
  /\ call.fn = "takes_wide"
  /\ Samples # {}
  /\ IsOk(call.result)
  /\ hex_decode(call.result.val)
       = <<0, 0, 0, 0, 0, 0, 255, 255, 255, 255, 255, 255, 255, 255, 255, 255>>

\* C13: a string of declared length N encodes to its N bytes followed by
\* zero bytes only, up to the smallest multiple of 8 that is not less than N.
StringsArePadded ==
  call.op = "encode" =>
    \A g \in Samples :
      (Len(g.vs) = 1 /\ g.vs[1].k = "String")
        => /\ IsOk(call.result)
           /\ LET body == hex_decode(call.result.val)
                  n == g.vs[1].n
              IN /\ Len(body) % 8 = 0
                 /\ Len(body) >= n
                 /\ Len(body) < n + 8
                 /\ SubSeq(body, 1, n) = g.vs[1].data
                 /\ \A i \in (n + 1)..Len(body) : body[i] = 0

\* encode was given a str[8]: one word, no padding word
StringsArePaddedWitness ==
  /\ call.op = "encode"
  /\ call.fn = "takes_long_string"
  /\ Samples # {}
  /\ IsOk(call.result)
  /\ Len(hex_decode(call.result.val)) = 8

\* the wire form of a value that is no array, tuple or struct
RECURSIVE WireOfLeaf(_)
RECURSIVE LeavesOf(_)
\* the leaves of a value, left to right
LeavesOf(v) ==
  IF v.k \in {"Array", "Tuple", "Struct"}
  THEN Flatten([i \in DOMAIN v.es |-> LeavesOf(v.es[i])])
  ELSE <<v>>

WireOfLeaf(v) ==
  CASE v.k \in ScalarKinds -> WordOf(v)
    [] v.k = "String" -> v.data \o Zeros((8 - (v.n % 8)) % 8)
    [] v.k = "Enum" ->
         <<0, 0, 0, 0, 0, 0, 0, v.d>>
           \o LET ls == LeavesOf(v.p) IN Flatten([i \in DOMAIN ls |-> WireOfLeaf(ls[i])])

\* C14: an Array, Tuple or Struct encodes to the concatenation of the
\* encodings of its elements in order, with no length prefix and no padding
\* of its own, at every depth: the body is the encoding of the leaves of the
\* inputs from left to right.
CompositesAreConcatenated ==
  call.op = "encode" =>
    \A g \in Samples :
      /\ IsOk(call.result)
      /\ LET ls == Flatten([i \in DOMAIN g.vs |-> LeavesOf(g.vs[i])])
         IN hex_decode(call.result.val) = Flatten([i \in DOMAIN ls |-> WireOfLeaf(ls[i])])

\* encode was given a [[u8; 2]; 2]: four words
CompositesAreConcatenatedWitness ==
  /\ call.op = "encode"
  /\ call.fn = "takes_matrix"
  /\ Samples # {}
  /\ IsOk(call.result)
  /\ hex_decode(call.result.val) = Num(0, 8) \o Num(1, 8) \o Num(1, 8) \o Num(0, 8)

\* C15: an Enum encodes to one word holding the index of the variant followed
\* by the encoding of the payload, with nothing added to make the variants
\* equally wide: a Unit payload leaves the discriminant word alone.
EnumIsDiscriminantThenPayload ==
  call.op = "encode" =>
    \A g \in Samples :
      (Len(g.vs) = 1 /\ g.vs[1].k = "Enum")
        => /\ IsOk(call.result)
           /\ LET body == hex_decode(call.result.val)
                  v == g.vs[1]
              IN /\ SubSeq(body, 1, 8) = <<0, 0, 0, 0, 0, 0, 0, v.d>>
                 /\ SubSeq(body, 9, Len(body))
                      = (IF v.p.k \in ScalarKinds THEN WordOf(v.p) ELSE EncodeToken(v.p))
                 /\ v.p.k = "Unit" => Len(body) = 8

\* encode was given the unit variant of an enum whose other variants have a
\* payload of one word
EnumIsDiscriminantThenPayloadWitness ==
  /\ call.op = "encode"
  /\ call.fn = "takes_shape"
  /\ Samples # {}
  /\ IsOk(call.result)
  /\ hex_decode(call.result.val) = Num(2, 8)

IsDecodeCall ==
  \/ call.op = "decode_params"
  \/ /\ call.op = "decode"
     /\ CalledEntry # <<>>
     /\ IsOk(ResolveId(CalledEntry[1].output.type, get_types(SchemaOf[call.abi])))

\* the types a decode call reads, and the bytes it reads them from
DecodedTypes ==
  IF call.op = "decode_params" THEN call.params
  ELSE <<ResolveId(CalledEntry[1].output.type, get_types(SchemaOf[call.abi])).val>>

DecodedBytes == IF call.op = "decode_params" THEN call.data ELSE call.value

\* where the reads of a type that start at pos end; an enum reads its
\* discriminant word and, when that selects a variant, the variant's payload
RECURSIVE EndOf(_, _, _)
RECURSIVE EndOfAll(_, _, _)
EndOfAll(ts, bytes, pos) ==
  IF ts = <<>> THEN pos ELSE EndOfAll(Tail(ts), bytes, EndOf(Head(ts), bytes, pos))

EndOf(t, bytes, pos) ==
  CASE t.k = "Unit" -> pos
    [] t.k = "B256" -> pos + 32
    [] t.k = "String" -> pos + 8 * ((t.n + 7) \div 8)
    [] t.k = "Array" -> EndOfAll([i \in 1..t.n |-> t.inner], bytes, pos)
    [] t.k \in {"Tuple", "Struct"} -> EndOfAll(t.ts, bytes, pos)
    [] t.k = "Enum" ->
         IF pos + 8 <= Len(bytes)
            /\ IsZero(SubSeq(bytes, pos + 1, pos + 7)) /\ bytes[pos + 8] < Len(t.ts)
         THEN EndOf(t.ts[bytes[pos + 8] + 1], bytes, pos + 8)
         ELSE pos + 8
    [] OTHER -> pos + 8

\* C16: decode and decode_params fail with InsufficientBytes whenever a read
\* the types require ends past the end of the input, a token is never built
\* from bytes that are not there, and empty input fails for every type but
\* those that encode to no bytes.
InsufficientBytesIsReturned ==
  IsDecodeCall =>
    LET end == EndOfAll(DecodedTypes, DecodedBytes, 0)
    IN /\ end > Len(DecodedBytes) => call.result = InsufficientBytes
       /\ IsOk(call.result) => call.result.pos <= Len(DecodedBytes)
       /\ (DecodedBytes = <<>> /\ end = 0) => IsOk(call.result)

\* decode_params was given an enum whose payload word lacks its last byte
InsufficientBytesIsReturnedWitness ==
  /\ call.op = "decode_params"
  /\ call.params = TypesOf("takes_shape")
  /\ Len(call.data) = 2 * WORD_SIZE - 1
  /\ call.data[WORD_SIZE] < 2
  /\ call.result = InsufficientBytes

\* every enum discriminant word the reads come to is the index of a variant
RECURSIVE EnumsSelect(_, _, _)
RECURSIVE EnumsSelectAll(_, _, _)
EnumsSelectAll(ts, bytes, pos) ==
  \/ ts = <<>>
  \/ /\ EnumsSelect(Head(ts), bytes, pos)
     /\ EnumsSelectAll(Tail(ts), bytes, EndOf(Head(ts), bytes, pos))

EnumsSelect(t, bytes, pos) ==
  CASE t.k = "Array" -> EnumsSelectAll([i \in 1..t.n |-> t.inner], bytes, pos)
    [] t.k \in {"Tuple", "Struct"} -> EnumsSelectAll(t.ts, bytes, pos)
    [] t.k = "Enum" ->
         /\ pos + 8 <= Len(bytes)
         /\ IsZero(SubSeq(bytes, pos + 1, pos + 7))
         /\ bytes[pos + 8] < Len(t.ts)
         /\ EnumsSelect(t.ts[bytes[pos + 8] + 1], bytes, pos + 8)
    [] OTHER -> TRUE

\* decode returns one token per type, read up to the end of the reads, when
\* the bytes suffice
DecodesWhenLongEnough(selecting) ==
  IsDecodeCall =>
    LET end == EndOfAll(DecodedTypes, DecodedBytes, 0)
    IN (/\ end <= Len(DecodedBytes)
        /\ selecting => EnumsSelectAll(DecodedTypes, DecodedBytes, 0))
       => /\ IsOk(call.result)
          /\ Len(call.result.val) = Len(DecodedTypes)
          /\ call.result.pos = end

RECURSIVE TagOf(_, _, _)
TagsOf(ts, open, sep) == JoinTags([i \in DOMAIN ts |-> TagOf(ts[i], open, sep)])

TagOf(t, open, sep) ==
  CASE t.k = "Unit" -> "()"
    [] t.k = "Bool" -> "bool"
    [] t.k = "U8" -> "u8"
    [] t.k = "U16" -> "u16"
    [] t.k = "U32" -> "u32"
    [] t.k = "U64" -> "u64"
    [] t.k = "Byte" -> "byte"
    [] t.k = "B256" -> "b256"
    [] t.k = "String" -> "str[" \o ToString(t.n) \o "]"
    [] t.k = "Array" -> open \o TagOf(t.inner, open, sep) \o sep \o ToString(t.n) \o "]"
    [] t.k = "Tuple" -> "(" \o TagsOf(t.ts, open, sep) \o ")"
    [] t.k = "Struct" -> "s(" \o TagsOf(t.ts, open, sep) \o ")"
    [] t.k = "Enum" -> "e(" \o TagsOf(t.ts, open, sep) \o ")"

\* the selector a call of encode stores is the hash of name(tags) over the
\* function name and the resolved input types alone
SelectorIsHashOf(open, sep) ==
  (IsEncodeCall /\ CalledEntry # <<>> /\ IsOk(CalledInputs)) =>
    fn_selector
      = Some(<<0, 0, 0, 0>>
               \o Sha256Prefix[call.fn \o "(" \o TagsOf(CalledInputs.val, open, sep) \o ")"])

\* C18: the canonical signature is the name, '(', the comma-joined tags of the
\* inputs in order, ')', a tag being the primitive's name, str[N],
\* a[<inner>;N], (<t1>,<t2>,...), s(<tags>) or e(<tags>), built recursively;
\* it depends on the function name and the resolved input types only, not on
\* the names of parameters, fields, variants, structs or enums, nor on the
\* output type.
SignatureIsNameAndTags == SelectorIsHashOf("a[", ";")

\* C18 as claimed: the tag of an array is [<inner>; N]
SignatureWithBracketArrays == SelectorIsHashOf("[", "; ")

\* takes_struct was encoded on the schema with the other names and output and
\* got the selector it has on the tests' schema
SignatureIsNameAndTagsWitness ==
  /\ call.op = "encode"
  /\ call.abi = "renamed"
  /\ IsOk(call.result)
  /\ fn_selector = Some(<<0, 0, 0, 0, 141, 74, 185, 176>>)

\* C19: no call of encode, encode_with_function_selector, decode or
\* decode_params, whether it succeeds or fails, changes the fn_selector the
\* parser stores (stated as claimed; encode stores the selector of the
\* function it was called for).
CallsLeaveNoState ==
  [][call'.op \in {"encode", "encode_with_function_selector", "decode", "decode_params"}
       => fn_selector' = fn_selector]_vars

\* the type ids a declaration refers to
Refs(types, id) ==
  IF id \in DOMAIN types THEN {types[id].components[i].type : i \in DOMAIN types[id].components}
  ELSE {}

RECURSIVE ReachFrom(_, _, _)
ReachFrom(types, ids, n) ==
  IF n = 0 THEN ids
  ELSE ReachFrom(types, ids \cup UNION {Refs(types, i) : i \in ids}, n - 1)

\* the type ids reached from id in one reference or more
Reached(types, id) == ReachFrom(types, Refs(types, id), Cardinality(DOMAIN types))

\* a cycle of references is reachable from id
ReachesCycle(types, id) == \E j \in {id} \cup Reached(types, id) : j \in Reached(types, j)

\* the type ids the call resolves: the inputs for encode, the output for decode
ResolvedIds ==
  IF CalledEntry = <<>> THEN {}
  ELSE IF IsEncodeCall
       THEN {CalledEntry[1].inputs[i].type : i \in DOMAIN CalledEntry[1].inputs}
       ELSE {CalledEntry[1].output.type}

\* C20: type resolution ends for every schema: a call that resolves a type id
\* from which a cycle of references is reachable returns the error
\* TypeGraphTooDeep/Cyclic, and a call on an acyclic type graph does not
\* overflow (stated as claimed; the descent is unbounded and a cyclic schema
\* overflows the stack).
ResolutionTerminates ==
  (IsEncodeCall \/ call.op = "decode") =>
    LET types == get_types(SchemaOf[call.abi])
    IN IF \E id \in ResolvedIds : ReachesCycle(types, id)
       THEN /\ call.result.kind = "err"
            /\ call.result.err.kind \in {"TypeGraphTooDeep", "Cyclic"}
       ELSE call.result # StackOverflow

\* the selector word of the function the call names
OwnSelector ==
  <<0, 0, 0, 0>>
    \o Sha256Prefix[call.fn \o "(" \o TagsOf(CalledInputs.val, "a[", ";") \o ")"]

\* the payload of a successful encode_with_function_selector starts with the
\* selector word of the function named in the call
SelectorIsOwn ==
  (call.op = "encode_with_function_selector" /\ IsOk(call.result)) =>
    /\ CalledEntry # <<>>
    /\ IsOk(CalledInputs)
    /\ SubSeq(hex_decode(call.result.val), 1, WORD_SIZE) = OwnSelector

\* a call that fails before it computes its selector returns an error
EarlyFailureIsReturned ==
  (/\ call.op = "encode_with_function_selector"
   /\ CalledEntry = <<>> \/ ~IsOk(CalledInputs)) => call.result.kind = "err"

\* C21: in any sequence of calls on one parser, the selector word of a
\* successful encode_with_function_selector is that of the function named in
\* the call, never one an earlier call left in fn_selector, and a call that
\* fails before it computes its selector returns an error (stated as claimed;
\* such a call aborts, as in C4 and C6).
NoStaleSelector == SelectorIsOwn /\ EarlyFailureIsReturned

\* C22: a successful encode has as many literals as the function has inputs,
\* and its body holds one encoding per input, tokenized from the literal at
\* the same position (stated as claimed; the inputs are zipped with the
\* literals and the longer side is cut).
EncodeCoversEveryInput ==
  (call.op = "encode" /\ IsOk(call.result)) =>
    /\ Len(call.values) = Len(CalledEntry[1].inputs)
    /\ hex_decode(call.result.val)
         = Flatten([i \in DOMAIN CalledInputs.val |->
                      EncodeToken(tokenize(CalledInputs.val[i], call.values[i]).val)])

\* C23: the body encode returns has a length that is a multiple of the word
\* size, every input's encoding in it starts on a word boundary, and the
\* payload of encode_with_function_selector is 8 bytes longer than the body.
BodyIsWholeWords ==
  /\ (call.op = "encode" /\ IsOk(call.result)) =>
       /\ Len(hex_decode(call.result.val)) % WORD_SIZE = 0
       /\ Len(call.result.val) = 2 * Len(hex_decode(call.result.val))
       /\ \A i \in DOMAIN Pairs :
            Len(EncodeToken(tokenize(Pairs[i][1], Pairs[i][2]).val)) % WORD_SIZE = 0
  /\ (call.op = "encode_with_function_selector" /\ IsOk(call.result)) =>
       LET e == encode(fn_selector, SchemaOf[call.abi], call.fn, call.values)
       IN /\ IsOk(e.result)
          /\ Len(hex_decode(call.result.val)) = Len(hex_decode(e.result.val)) + 8
          /\ Len(hex_decode(call.result.val)) % WORD_SIZE = 0

\* the payload of takes_string: the selector word and one word for the
\* 4 characters and their padding
BodyIsWholeWordsWitness ==
  /\ call.op = "encode_with_function_selector"
  /\ call.fn = "takes_string"
  /\ IsOk(call.result)
  /\ Len(hex_decode(call.result.val)) = 2 * WORD_SIZE
  /\ SubSeq(hex_decode(call.result.val), 13, 16) = <<0, 0, 0, 0>>

====
